---------------------------- MODULE Spec2Model ----------------------------
(***************************************************************************)
(* net-tui: the refresh / state / render loop of src/main.go.              *)
(*                                                                         *)
(* The bubbletea runtime is the environment: it delivers one message at a  *)
(* time to model.Update, renders model.View() after every Update, and runs *)
(* every command a handler returns (fetchData, the 2 s timer) on its own   *)
(* goroutine.  psnet.Connections, net.Interfaces, psnet.IOCounters and the *)
(* process table are inputs, drawn from bounded sets.                      *)
(***************************************************************************)
EXTENDS Integers, Sequences, FiniteSets, TLC

VARIABLES
    m,         \* the model struct held by the runtime (main.go:61-71)
    frame,     \* what the last model.View() produced
    running,   \* "running", "quitting" (tea.Quit returned, its QuitMsg not yet
               \* received), "quit" or "panic" (View indexed out of range)
    inflight,  \* one entry per fetchData goroutine that has not delivered yet, in start order;
               \* the entry is TRUE once a pass started after it has been applied
    more,      \* TRUE while fetchData goroutines started after those of inflight, not
               \* listed one by one, have not delivered yet and no pass started after
               \* them has been applied
    late,      \* TRUE while such goroutines have not delivered yet and a pass started
               \* after them has been applied
    timer,     \* TRUE while a tea.Tick timer is armed
    beat,      \* flips with every tickMsg handled, where ticks are told apart (SpecLive)
    pass,      \* one acquisition pass on its own: what the host answered and the dataMsg built
    last,      \* the message handled by the last Update
    fed,       \* TRUE once a dataMsg has carried at least one connection
    trunc      \* one call of truncate on its own: the string, the limit and the result

vars == <<m, frame, running, inflight, more, late, timer, beat, pass, last, fed, trunc>>

-----------------------------------------------------------------------------
(* Bounds of the model *)

MaxHeight == 8
MaxInflight == 2
MaxRaw == 2
MaxStr == 6
MaxLimit == 5

(* Program constants *)

tabConnections == 0
tabPorts == 1
tabInterfaces == 2
NumTabs == 3
FixedChromeRows == 5
SockDgram == 2
AfInet6 == 10
AfInet6Windows == 23

-----------------------------------------------------------------------------
(* Small helpers on sequences *)

Min(a, b) == IF a < b THEN a ELSE b

SeqsUpTo(S, n) == UNION {[1..k -> S] : k \in 0..n}

-----------------------------------------------------------------------------
(* Normalizer: formatting helpers *)

\* "tcp" unless the type is 2, with "6" appended for the IPv6 families
protoString(connType, family) ==
    LET proto == IF connType = SockDgram THEN "udp" ELSE "tcp"
    IN  IF family = AfInet6 \/ family = AfInet6Windows THEN proto \o "6" ELSE proto

\* "%s:%d" of the address (or "*") and the port, kept as the pair it prints
formatAddr(ip, port) ==
    <<IF ip = "" THEN "*" ELSE ip, port>>

\* the process table as process.NewProcess(pid).Name() answers: pid 7 resolves,
\* any other lookup fails and leaves the name empty
getProcessName(pid) ==
    IF pid = 7 THEN "sshd" ELSE ""

-----------------------------------------------------------------------------
(* Normalizer: connections *)

newConnection(c) ==
    [proto   |-> protoString(c.Type, c.Family),
     local   |-> formatAddr(c.LIP, c.LPort),
     remote  |-> formatAddr(c.RIP, c.RPort),
     state   |-> c.Status,
     pid     |-> c.Pid,
     process |-> IF c.Pid > 0 THEN getProcessName(c.Pid) ELSE ""]

RECURSIVE connectionsLoop(_, _, _)
connectionsLoop(conns, i, result) ==
    IF i > Len(conns) THEN result
    ELSE IF conns[i].Status = "" THEN connectionsLoop(conns, i + 1, result)
    ELSE connectionsLoop(conns, i + 1, Append(result, newConnection(conns[i])))

\* res is what psnet.Connections("all") returned: [err, conns]
fetchConnections(res) ==
    IF res.err THEN <<>> ELSE connectionsLoop(res.conns, 1, <<>>)

-----------------------------------------------------------------------------
(* Normalizer: ports *)

\* fmt.Sprintf("%d-%d", c.Laddr.Port, c.Type): the pair of port and socket type
portKey(c) ==
    <<c.LPort, c.Type>>

newPort(c) ==
    [port    |-> c.LPort,
     proto   |-> protoString(c.Type, c.Family),
     addr    |-> c.LIP,
     pid     |-> c.Pid,
     process |-> IF c.Pid > 0 THEN getProcessName(c.Pid) ELSE ""]

RECURSIVE portsLoop(_, _, _, _)
portsLoop(conns, i, seen, result) ==
    IF i > Len(conns) THEN result
    ELSE IF conns[i].Status # "LISTEN" THEN portsLoop(conns, i + 1, seen, result)
    ELSE IF portKey(conns[i]) \in seen THEN portsLoop(conns, i + 1, seen, result)
    ELSE portsLoop(conns, i + 1, seen \cup {portKey(conns[i])},
                   Append(result, newPort(conns[i])))

portGreater(a, b) ==
    a.port > b.port

\* the less function handed to sort.Slice
portLess(a, b) ==
    a.port < b.port

\* insert p after the last element that is not greater than it
RECURSIVE insertSorted(_, _)
insertSorted(sorted, p) ==
    IF sorted = <<>> THEN <<p>>
    ELSE IF portLess(p, sorted[Len(sorted)])
         THEN Append(insertSorted(SubSeq(sorted, 1, Len(sorted) - 1), p), sorted[Len(sorted)])
         ELSE Append(sorted, p)

\* sort.Slice on a slice of at most 12 elements is an insertion sort
RECURSIVE sortPorts(_)
sortPorts(result) ==
    IF result = <<>> THEN <<>>
    ELSE insertSorted(sortPorts(SubSeq(result, 1, Len(result) - 1)), result[Len(result)])

fetchPorts(res) ==
    IF res.err THEN <<>> ELSE sortPorts(portsLoop(res.conns, 1, {}, <<>>))

-----------------------------------------------------------------------------
(* Normalizer: interfaces *)

\* ioMap[name]: the last counter entry of that name, if any
RECURSIVE ioLookup(_, _, _)
ioLookup(counters, name, i) ==
    IF i = 0 THEN [BytesRecv |-> 0, BytesSent |-> 0]
    ELSE IF counters[i].Name = name THEN counters[i]
    ELSE ioLookup(counters, name, i - 1)

newIface(ni, counters) ==
    [name  |-> ni.Name,
     up    |-> ni.up,
     addrs |-> IF ni.addrsErr THEN <<>> ELSE ni.addrs,
     rx    |-> ioLookup(counters, ni.Name, Len(counters)).BytesRecv,
     tx    |-> ioLookup(counters, ni.Name, Len(counters)).BytesSent]

RECURSIVE interfacesLoop(_, _, _, _)
interfacesLoop(ifs, counters, i, result) ==
    IF i > Len(ifs) THEN result
    ELSE IF ifs[i].loopback THEN interfacesLoop(ifs, counters, i + 1, result)
    ELSE interfacesLoop(ifs, counters, i + 1, Append(result, newIface(ifs[i], counters)))

\* res is what net.Interfaces() and psnet.IOCounters(true) returned:
\* [err, ifs, countersErr, counters]; the error of IOCounters is dropped and the
\* counters it returned are used as they are
fetchInterfaces(res) ==
    IF res.err THEN <<>>
    ELSE interfacesLoop(res.ifs, res.counters, 1, <<>>)

-----------------------------------------------------------------------------
(* One acquisition pass *)

fetchDataBlanking(in) ==
    [connections |-> fetchConnections(in.conns1),
     ports       |-> fetchPorts(in.conns2),
     interfaces  |-> IF in.conns1.err THEN <<>> ELSE fetchInterfaces(in.ifaces)]

\* in.conns1 and in.conns2 are the two psnet.Connections calls of the pass
fetchData(in) ==
    [connections |-> fetchConnections(in.conns1),
     ports       |-> fetchPorts(in.conns2),
     interfaces  |-> fetchInterfaces(in.ifaces)]

-----------------------------------------------------------------------------
(* Navigation state machine *)

newModel ==
    [tab |-> tabConnections, cursor |-> 0, offset |-> 0, width |-> 0, height |-> 0,
     connections |-> <<>>, ports |-> <<>>, interfaces |-> <<>>]

listLen(mm) ==
    IF mm.tab = tabConnections THEN Len(mm.connections)
    ELSE IF mm.tab = tabPorts THEN Len(mm.ports)
    ELSE IF mm.tab = tabInterfaces THEN Len(mm.interfaces)
    ELSE 0

\* only the upper end is clamped
clampCursor(mm) ==
    LET max == IF listLen(mm) - 1 < 0 THEN 0 ELSE listLen(mm) - 1
    IN  IF mm.cursor > max THEN [mm EXCEPT !.cursor = max] ELSE mm

tabForwardNoWrap(t) ==
    t + 1

tabForward(t) ==
    (t + 1) % NumTabs

tabBackward(t) ==
    (t + 2) % NumTabs

switchTabKeepCursor(mm, t) ==
    [mm EXCEPT !.tab = t, !.offset = 0]

\* m.tab, m.cursor, m.offset = t, 0, 0
switchTab(mm, t) ==
    [mm EXCEPT !.tab = t, !.cursor = 0, !.offset = 0]

\* the model handleKey returns; the command it returns is quitKey
handleKey(mm, key) ==
    IF key \in {"q", "ctrl+c"} THEN mm
    ELSE IF key \in {"tab", "l", "right"}
        THEN switchTab(mm, tabForward(mm.tab))
    ELSE IF key \in {"shift+tab", "h", "left"}
        THEN switchTab(mm, tabBackward(mm.tab))
    ELSE IF key \in {"j", "down"}
        THEN clampCursor([mm EXCEPT !.cursor = mm.cursor + 1])
    ELSE IF key \in {"k", "up"}
        THEN IF mm.cursor > 0 THEN [mm EXCEPT !.cursor = mm.cursor - 1] ELSE mm
    ELSE IF key \in {"g", "home"}
        THEN [mm EXCEPT !.cursor = 0, !.offset = 0]
    ELSE IF key \in {"G", "end"}
        THEN clampCursor([mm EXCEPT !.cursor = listLen(mm) - 1])
    ELSE IF key = "1"
        THEN switchTab(mm, tabConnections)
    ELSE IF key = "2"
        THEN switchTab(mm, tabPorts)
    ELSE IF key = "3"
        THEN switchTab(mm, tabInterfaces)
    ELSE mm

quitKey(key) ==
    key \in {"q", "ctrl+c"}

updateTickClearing(mm) ==
    [mm EXCEPT !.connections = <<>>, !.ports = <<>>, !.interfaces = <<>>]

\* Update on a tickMsg: the model is returned as it is
updateTick(mm) ==
    mm

batchFetchOnly ==
    <<"fetchData">>

\* the commands Init and Update on a tickMsg hand to the runtime: tea.Batch(fetchData, tick())
batchFetchTick ==
    <<"fetchData", "tick">>

updateWindowSizeSwapped(mm, w, h) ==
    [mm EXCEPT !.width = h, !.height = w]

\* Update on a tea.WindowSizeMsg
updateWindowSize(mm, w, h) ==
    [mm EXCEPT !.width = w, !.height = h]

\* Update on a dataMsg
updateData(mm, msg) ==
    clampCursor([mm EXCEPT !.connections = msg.connections,
                           !.ports = msg.ports,
                           !.interfaces = msg.interfaces])

-----------------------------------------------------------------------------
(* Renderer *)

adjustOffset(mm, pageSize) ==
    IF mm.cursor < mm.offset THEN [mm EXCEPT !.offset = mm.cursor]
    ELSE IF mm.cursor >= mm.offset + pageSize
        THEN [mm EXCEPT !.offset = mm.cursor - pageSize + 1]
    ELSE mm

visibleRange(mm, total, pageSize) ==
    [start |-> mm.offset, end |-> Min(mm.offset + pageSize, total)]

\* the loop of viewConnections, viewPorts and viewInterfaces over list: the indices
\* it renders, the ones it highlights, and whether list[i] was read out of range
viewList(mm, list, height) ==
    LET mc      == adjustOffset(mm, height - 1)
        visible == visibleRange(mc, Len(list), height - 1)
        idx     == visible.start .. (visible.end - 1)
    IN  [placeholder |-> FALSE,
         header      |-> TRUE,
         tab         |-> mm.tab,
         pageSize    |-> height - 1,
         offset      |-> mc.offset,
         rows        |-> idx,
         selected    |-> {i \in idx : i = mc.cursor},
         footer      |-> Len(list),
         panic       |-> \E i \in idx : i < 0 \/ i >= Len(list)]

\* height := m.height - 5, floored at 1
contentHeight(mm) ==
    IF mm.height - FixedChromeRows < 1 THEN 1 ELSE mm.height - FixedChromeRows

viewContent(mm) ==
    LET height == contentHeight(mm)
    IN  IF mm.tab = tabConnections THEN viewList(mm, mm.connections, height)
        ELSE IF mm.tab = tabPorts THEN viewList(mm, mm.ports, height)
        ELSE IF mm.tab = tabInterfaces THEN viewList(mm, mm.interfaces, height)
        ELSE [placeholder |-> FALSE, header |-> FALSE, tab |-> mm.tab, pageSize |-> 0,
              offset |-> mm.offset, rows |-> {}, selected |-> {}, footer |-> 0,
              panic |-> FALSE]

\* "loading..." until the first WindowSizeMsg
View(mm) ==
    IF mm.width = 0
    THEN [placeholder |-> TRUE, header |-> FALSE, tab |-> mm.tab, pageSize |-> 0,
          offset |-> mm.offset, rows |-> {}, selected |-> {}, footer |-> 0,
          panic |-> FALSE]
    ELSE viewContent(mm)

afterViewKeepingOffset(mm) ==
    IF mm.width = 0 \/ mm.tab \notin {tabConnections, tabPorts, tabInterfaces} THEN mm
    ELSE adjustOffset(mm, contentHeight(mm) - 1)

\* View has a value receiver: the runtime keeps the model Update returned
afterView(mm) ==
    mm

-----------------------------------------------------------------------------
(* Formatting of a cell *)

ellipsis ==
    <<".", ".", ".">>

truncateBelowThree(s, max) ==
    IF Len(s) <= max THEN s
    ELSE IF max < 3 THEN SubSeq(s, 1, max)
    ELSE SubSeq(s, 1, max - 3) \o ellipsis

\* a string is the sequence of its bytes, which len and s[:n] count
truncate(s, max) ==
    IF Len(s) <= max THEN s
    ELSE IF max <= 3 THEN SubSeq(s, 1, max)
    ELSE SubSeq(s, 1, max - 3) \o ellipsis

-----------------------------------------------------------------------------
(* Inputs *)

\* one key of each case of handleKey, and one it does not know
Keys ==
    {"q", "tab", "shift+tab", "j", "k", "g", "G", "1", "2", "3", "x"}

Heights == (FixedChromeRows + 1) .. MaxHeight

Widths == {80}

sshListen4 ==
    [Type |-> 1, Family |-> 2, LIP |-> "0.0.0.0", LPort |-> 22, RIP |-> "", RPort |-> 0,
     Status |-> "LISTEN", Pid |-> 7]

sshListen6 ==
    [Type |-> 1, Family |-> 10, LIP |-> "::", LPort |-> 22, RIP |-> "", RPort |-> 0,
     Status |-> "LISTEN", Pid |-> 7]

dnsListen ==
    [Type |-> 2, Family |-> 2, LIP |-> "", LPort |-> 53, RIP |-> "", RPort |-> 0,
     Status |-> "LISTEN", Pid |-> 0]

sshEstablished ==
    [Type |-> 1, Family |-> 2, LIP |-> "10.0.0.1", LPort |-> 22, RIP |-> "10.0.0.2",
     RPort |-> 40000, Status |-> "ESTABLISHED", Pid |-> 7]

noStatus ==
    [Type |-> 2, Family |-> 10, LIP |-> "::1", LPort |-> 5353, RIP |-> "", RPort |-> 0,
     Status |-> "", Pid |-> 0]

\* what psnet.Connections("all") may answer in the dashboard runs
ConnResults ==
    {[err |-> TRUE, conns |-> <<>>],
     [err |-> FALSE, conns |-> <<noStatus, sshEstablished>>],
     [err |-> FALSE, conns |-> <<sshListen4, noStatus, sshListen6, dnsListen, sshEstablished>>]}

loopbackIf ==
    [Name |-> "lo", loopback |-> TRUE, up |-> TRUE, addrsErr |-> FALSE, addrs |-> <<"127.0.0.1/8">>]

eth0If ==
    [Name |-> "eth0", loopback |-> FALSE, up |-> TRUE, addrsErr |-> FALSE, addrs |-> <<"10.0.0.1/24">>]

wlan0If ==
    [Name |-> "wlan0", loopback |-> FALSE, up |-> FALSE, addrsErr |-> TRUE, addrs |-> <<>>]

eth0Counters ==
    [Name |-> "eth0", BytesRecv |-> 2048, BytesSent |-> 1023]

\* what net.Interfaces() and psnet.IOCounters(true) may answer
IfaceResults ==
    {[err |-> TRUE, ifs |-> <<>>, countersErr |-> FALSE, counters |-> <<eth0Counters>>],
     [err |-> FALSE, ifs |-> <<loopbackIf, eth0If, wlan0If>>, countersErr |-> FALSE,
      counters |-> <<eth0Counters>>],
     [err |-> FALSE, ifs |-> <<loopbackIf, eth0If, wlan0If>>, countersErr |-> TRUE,
      counters |-> <<eth0Counters>>]}

\* and with them the IOCounters call that fails and returns nothing
IfaceResultsAll ==
    IfaceResults
        \cup {[err |-> FALSE, ifs |-> <<loopbackIf, eth0If, wlan0If>>, countersErr |-> TRUE,
                counters |-> <<>>]}

PassInputs ==
    [conns1 : ConnResults, conns2 : ConnResults, ifaces : IfaceResults]

noInput ==
    [conns1 |-> [err |-> FALSE, conns |-> <<>>], conns2 |-> [err |-> FALSE, conns |-> <<>>],
     ifaces |-> [err |-> FALSE, ifs |-> <<>>, countersErr |-> FALSE, counters |-> <<>>]]

noData ==
    [connections |-> <<>>, ports |-> <<>>, interfaces |-> <<>>]

noTruncate ==
    [done |-> FALSE, s |-> <<>>, max |-> 0, out |-> <<>>]

-----------------------------------------------------------------------------
(* The program under the bubbletea runtime *)

\* the passes a batch of commands starts
startPasses(cmds) ==
    [i \in 1..Cardinality({j \in 1..Len(cmds) : cmds[j] = "fetchData"}) |-> FALSE]

\* whether a batch of commands arms the timer
armsTimer(cmds) ==
    \E j \in 1..Len(cmds) : cmds[j] = "tick"

\* newModel, Init's commands started, and the first View
Init ==
    /\ m = newModel
    /\ frame = View(newModel)
    /\ running = "running"
    /\ inflight = startPasses(batchFetchTick)
    /\ more = FALSE
    /\ late = FALSE
    /\ beat = FALSE
    /\ timer = armsTimer(batchFetchTick)
    /\ pass = [done |-> FALSE, in |-> noInput, out |-> noData]
    /\ last = [kind |-> "init", key |-> "", stale |-> FALSE, w |-> 0, h |-> 0]
    /\ fed = FALSE
    /\ trunc = noTruncate

\* the event loop takes messages until the QuitMsg or a panic
alive ==
    running \in {"running", "quitting"}

\* the runtime stores the model Update returned, starts the command (tea.Quit is a
\* command like any other: its QuitMsg is received later) and renders the model
Rendered(mm, quit) ==
    LET f == View(mm)
    IN  /\ m' = afterView(mm)
        /\ frame' = f
        /\ running' = IF f.panic THEN "panic"
                       ELSE IF quit \/ running = "quitting" THEN "quitting"
                       ELSE "running"

\* a key of the set pressed is handled
KeyOf(pressed) ==
    /\ alive
    /\ \E key \in pressed :
        /\ Rendered(handleKey(m, key), quitKey(key))
        /\ last' = [kind |-> "key", key |-> key, stale |-> FALSE, w |-> 0, h |-> 0]
    /\ UNCHANGED <<inflight, more, late, timer, beat, pass, fed, trunc>>

Key ==
    KeyOf(Keys)

Resize ==
    /\ alive
    /\ \E w \in Widths, h \in Heights :
        /\ Rendered(updateWindowSize(m, w, h), FALSE)
        /\ last' = [kind |-> "resize", key |-> "", stale |-> FALSE, w |-> w, h |-> h]
    /\ UNCHANGED <<inflight, more, late, timer, beat, pass, fed, trunc>>

\* the passes of started are outstanding next to those that were: listed one by one
\* while at most MaxInflight are, and counted in more beyond that
Started(started) ==
    /\ IF ~more /\ ~late /\ Len(inflight) + Len(started) <= MaxInflight
       THEN inflight' = inflight \o started /\ more' = more
       ELSE inflight' = inflight /\ more' = (more \/ started # <<>>)
    /\ late' = late

\* the armed timer fires; Update starts a pass, however many are outstanding, and
\* arms the timer again; beats says whether the tick is told from the one before
TickOf(beats) ==
    /\ alive
    /\ timer
    /\ Rendered(updateTick(m), FALSE)
    /\ Started(startPasses(batchFetchTick))
    /\ beat' = (beat # beats)
    /\ timer' = armsTimer(batchFetchTick)
    /\ last' = [kind |-> "tick", key |-> "", stale |-> FALSE, w |-> 0, h |-> 0]
    /\ UNCHANGED <<pass, fed, trunc>>

Tick ==
    TickOf(FALSE)

\* the dataMsgs a pass may return
PassMsgs ==
    {fetchData(in) : in \in PassInputs}

\* an outstanding pass returns its dataMsg, one of msgs, and Update applies it.  The
\* pass is one of inflight, or one of those counted in more or in late, which were
\* all started after every pass of inflight and whose number is not kept: others of
\* them may or may not remain.  A pass of more returning leaves those of more started
\* before it, if any, overtaken
DataOf(msgs) ==
    /\ alive
    /\ \E msg \in msgs :
        /\ Rendered(updateData(m, msg), FALSE)
        /\ fed' = (fed \/ msg.connections # <<>>)
        /\ \/ \E i \in 1..Len(inflight) :
                /\ inflight' = [j \in 1..(Len(inflight) - 1) |->
                                    IF j < i THEN TRUE ELSE inflight[j + 1]]
                /\ more' = more
                /\ late' = late
                /\ last' = [kind |-> "data", key |-> "", stale |-> inflight[i],
                            w |-> 0, h |-> 0]
           \/ /\ more
              /\ inflight' = [j \in 1..Len(inflight) |-> TRUE]
              /\ more' \in BOOLEAN
              /\ late' \in {late, TRUE}
              /\ last' = [kind |-> "data", key |-> "", stale |-> FALSE, w |-> 0, h |-> 0]
           \/ /\ late
              /\ inflight' = inflight
              /\ more' = more
              /\ late' \in BOOLEAN
              /\ last' = [kind |-> "data", key |-> "", stale |-> TRUE, w |-> 0, h |-> 0]
    /\ UNCHANGED <<timer, beat, pass, trunc>>

Data ==
    DataOf(PassMsgs)

\* the QuitMsg of tea.Quit is received: the event loop ends before Update
Quit ==
    /\ running = "quitting"
    /\ running' = "quit"
    /\ last' = [kind |-> "quit", key |-> "", stale |-> FALSE, w |-> 0, h |-> 0]
    /\ UNCHANGED <<m, frame, inflight, more, late, timer, beat, pass, fed, trunc>>

Next ==
    \/ Key
    \/ Resize
    \/ Tick
    \/ Data
    \/ Quit

Spec == Init /\ [][Next]_vars

\* The timer loop on its own keys and answers: quit and the moves (the last of them
\* onto the row that makes View fail), and passes whose two connection enumerations
\* agree
LiveKeys ==
    {"q", "j", "G"}

LiveInputs ==
    {in \in PassInputs : in.conns1 = in.conns2 /\ ~in.ifaces.err}

KeyLive ==
    KeyOf(LiveKeys)

LiveMsgs ==
    {fetchData(in) : in \in LiveInputs}

DataLive ==
    DataOf(LiveMsgs)

TickLive ==
    TickOf(TRUE)

NextLive ==
    \/ KeyLive
    \/ Resize
    \/ TickLive
    \/ DataLive
    \/ Quit

\* the runtime delivers the message of a timer that has fired
SpecLive == Init /\ [][NextLive]_vars /\ WF_vars(TickLive)

-----------------------------------------------------------------------------
(* One acquisition pass on its own: fetchData over every enumeration of at    *)
(* most MaxRaw raw connections                                              *)

\* stream (1) and datagram sockets of both families on two addresses and two ports,
\* and sockets of a further type (5, SOCK_SEQPACKET), which c.Type may as well hold
RawConns ==
    [Type : {1, SockDgram}, Family : {2, AfInet6}, LIP : {"0.0.0.0", "10.0.0.1"},
     LPort : {22, 53}, RIP : {""}, RPort : {0}, Status : {"LISTEN", "ESTABLISHED"},
     Pid : {7}]
        \cup [Type : {5}, Family : {2}, LIP : {"0.0.0.0"}, LPort : {22, 53}, RIP : {""},
              RPort : {0}, Status : {"LISTEN", "ESTABLISHED"}, Pid : {7}]

Enumerations ==
    {[err |-> TRUE, conns |-> <<>>]}
        \cup {[err |-> FALSE, conns |-> s] : s \in SeqsUpTo(RawConns, MaxRaw)}

InitNorm ==
    /\ m = newModel
    /\ frame = View(newModel)
    /\ running = "running"
    /\ inflight = startPasses(batchFetchTick)
    /\ more = FALSE
    /\ late = FALSE
    /\ beat = FALSE
    /\ timer = armsTimer(batchFetchTick)
    /\ pass \in [done : {FALSE}, in : [conns1 : ConnResults, conns2 : Enumerations,
                                       ifaces : IfaceResultsAll], out : {noData}]
    /\ last = [kind |-> "init", key |-> "", stale |-> FALSE, w |-> 0, h |-> 0]
    /\ fed = FALSE
    /\ trunc = noTruncate

\* the pass runs to its end
Normalize ==
    /\ ~pass.done
    /\ pass' = [pass EXCEPT !.done = TRUE, !.out = fetchData(pass.in)]
    /\ UNCHANGED <<m, frame, running, inflight, more, late, timer, beat, last, fed, trunc>>

NextNorm ==
    Normalize

SpecNorm == InitNorm /\ [][NextNorm]_vars

-----------------------------------------------------------------------------
(* One call of truncate on its own: every string of at most MaxStr bytes and   *)
(* every limit up to MaxLimit                                                 *)

Bytes ==
    {"a", "b"}

InitTrunc ==
    /\ m = newModel
    /\ frame = View(newModel)
    /\ running = "running"
    /\ inflight = startPasses(batchFetchTick)
    /\ more = FALSE
    /\ late = FALSE
    /\ beat = FALSE
    /\ timer = armsTimer(batchFetchTick)
    /\ pass = [done |-> FALSE, in |-> noInput, out |-> noData]
    /\ last = [kind |-> "init", key |-> "", stale |-> FALSE, w |-> 0, h |-> 0]
    /\ fed = FALSE
    /\ trunc \in [done : {FALSE}, s : SeqsUpTo(Bytes, MaxStr), max : 0..MaxLimit, out : {<<>>}]

Truncate ==
    /\ ~trunc.done
    /\ trunc' = [trunc EXCEPT !.done = TRUE, !.out = truncate(trunc.s, trunc.max)]
    /\ UNCHANGED <<m, frame, running, inflight, more, late, timer, beat, pass, last, fed>>

NextTrunc ==
    Truncate

SpecTrunc == InitTrunc /\ [][NextTrunc]_vars

-----------------------------------------------------------------------------
(* Properties *)

Max(a, b) == IF a > b THEN a ELSE b

\* the index of the first listening entry of conns with the port and label of conns[i]
firstListener(conns, i) ==
    CHOOSE j \in 1..i :
        /\ conns[j].Status = "LISTEN"
        /\ conns[j].LPort = conns[i].LPort
        /\ protoString(conns[j].Type, conns[j].Family) = protoString(conns[i].Type, conns[i].Family)
        /\ \A k \in 1..(j - 1) :
            ~ /\ conns[k].Status = "LISTEN"
              /\ conns[k].LPort = conns[i].LPort
              /\ protoString(conns[k].Type, conns[k].Family)
                    = protoString(conns[i].Type, conns[i].Family)

\* C1: after every transition the cursor is within the active list:
\* 0 <= cursor <= max(len(activeList) - 1, 0)
C1_CursorInBounds ==
    /\ 0 <= m.cursor
    /\ m.cursor <= Max(listLen(m) - 1, 0)

\* C2: as long as no data-refresh has delivered a connection, on the Connections
\* tab the cursor is 0 and the frame, once the dimensions are known, is the header
\* row, no data row and the "0 connections" footer, rendered without a failure
C2_EmptyConnectionsRender ==
    (~fed /\ m.tab = tabConnections) =>
        /\ m.cursor = 0
        /\ running # "panic"
        /\ ~frame.panic
        /\ m.width # 0 => (frame.header /\ frame.rows = {} /\ frame.footer = 0)

\* C3: at most one acquisition pass is outstanding at any time
C3_NoConcurrentPasses ==
    Len(inflight) <= 1

\* C4: the stored scroll offset follows the cursor: offset <= cursor < offset + pageSize
\* whenever pageSize >= 1, with pageSize the viewport height minus the chrome rows;
\* stated for the states whose cursor is within the active list, where it fails too
C4_ScrollFollowStored ==
    LET pageSize == m.height - FixedChromeRows
    IN  (pageSize >= 1 /\ C1_CursorInBounds) =>
            (m.offset <= m.cursor /\ m.cursor < m.offset + pageSize)

\* C5: within one pass a failing connection enumeration empties the connection list
\* and leaves the interface list as any other connection answer would, and a failing
\* interface enumeration empties the interface list and leaves connections and ports
\* as any other interface answer would
C5_PartialFailureIsolation ==
    pass.done =>
        /\ pass.in.conns1.err => pass.out.connections = <<>>
        /\ pass.in.ifaces.err => pass.out.interfaces = <<>>
        /\ \A alt \in ConnResults :
            fetchData([pass.in EXCEPT !.conns1 = alt]).interfaces = pass.out.interfaces
        /\ \A alt \in IfaceResultsAll :
            LET other == fetchData([pass.in EXCEPT !.ifaces = alt])
            IN  /\ other.connections = pass.out.connections
                /\ other.ports = pass.out.ports

\* C5 witness: the connection enumeration failed, the list is empty and the
\* interfaces are populated
C5_Witness ==
    /\ pass.done
    /\ pass.in.conns1.err
    /\ ~pass.in.ifaces.err
    /\ pass.out.connections = <<>>
    /\ Len(pass.out.interfaces) = 2

\* C6: every (port, transport-label) pair of a listening entry has exactly one port
\* record, built from the first listening entry with that pair
C6_OneRecordPerPortAndLabel ==
    (pass.done /\ ~pass.in.conns2.err) =>
        LET conns == pass.in.conns2.conns
        IN  \A i \in 1..Len(conns) :
                conns[i].Status = "LISTEN" =>
                    \E k \in 1..Len(pass.out.ports) :
                        pass.out.ports[k] = newPort(conns[firstListener(conns, i)])

\* C7: no two port records share the same (port, transport-label) pair
C7_PortsUniquePerPortAndLabel ==
    pass.done =>
        \A i, j \in 1..Len(pass.out.ports) :
            (i # j) => <<pass.out.ports[i].port, pass.out.ports[i].proto>>
                           # <<pass.out.ports[j].port, pass.out.ports[j].proto>>

\* C8 as stated: every port record has a port number strictly greater than its
\* predecessor's
C8_PortsStrictlyAscending ==
    pass.done =>
        \A i \in 1..(Len(pass.out.ports) - 1) :
            pass.out.ports[i].port < pass.out.ports[i + 1].port

\* C8 amended: port numbers never decrease along the port list
C8_PortsAscending ==
    pass.done =>
        \A i, j \in 1..Len(pass.out.ports) :
            (i < j) => pass.out.ports[i].port <= pass.out.ports[j].port

\* C8 witness: the listeners were enumerated in descending port order and the list
\* came out ascending
C8_Witness ==
    /\ pass.done
    /\ ~pass.in.conns2.err
    /\ Len(pass.in.conns2.conns) = 2
    /\ pass.in.conns2.conns[1].Status = "LISTEN"
    /\ pass.in.conns2.conns[2].Status = "LISTEN"
    /\ pass.in.conns2.conns[1].LPort > pass.in.conns2.conns[2].LPort
    /\ Len(pass.out.ports) = 2
    /\ pass.out.ports[1].port < pass.out.ports[2].port

\* C9: whether or not a pass is outstanding, a key event takes the model to
\* handleKey's result and a resize changes the dimensions only; starting a pass
\* changes nothing of the model, and only a delivered dataMsg changes a record list
C9_HungPassHarmless ==
    [][/\ last'.kind = "key" =>
              /\ m' = handleKey(m, last'.key)
              /\ inflight' = inflight
              /\ more' = more
              /\ late' = late
       /\ last'.kind = "resize" =>
              /\ [m' EXCEPT !.width = m.width, !.height = m.height] = m
              /\ inflight' = inflight
              /\ more' = more
              /\ late' = late
       /\ last'.kind = "tick" => m' = m
       /\ last'.kind # "data" =>
              /\ m'.connections = m.connections
              /\ m'.ports = m.ports
              /\ m'.interfaces = m.interfaces]_vars

\* C9 witness: a move-down was handled, and moved the cursor, while two passes
\* were outstanding
C9_Witness ==
    /\ Len(inflight) = 2
    /\ last.kind = "key"
    /\ last.key = "j"
    /\ m.cursor >= 1

\* C10: the active tab is one of the three tabs, and three tab-forwards, like three
\* tab-backwards, lead back to it
C10_TabsCycle ==
    /\ m.tab \in {tabConnections, tabPorts, tabInterfaces}
    /\ tabForward(tabForward(tabForward(m.tab))) = m.tab
    /\ tabBackward(tabBackward(tabBackward(m.tab))) = m.tab
    /\ tabForward(m.tab) # m.tab
    /\ tabBackward(m.tab) # m.tab

\* C10 witness: tab-forward on the Interfaces tab wrapped to the Connections tab
C10_Witness ==
    /\ last.kind = "key"
    /\ last.key = "tab"
    /\ m.tab = tabConnections

\* C11: a pass is outstanding from startup; every handled tick starts a pass next to
\* the passes outstanding, however many they are, and arms the timer again; the timer
\* is armed at all times; and until the program has quit (or failed) ticks are handled
\* again and again, also when no pass ever returns
C11_PassesKeepStarting ==
    /\ Len(inflight) = 1
    /\ [][last'.kind = "tick" =>
            /\ timer'
            /\ \/ Len(inflight') = Len(inflight) + 1 /\ more' = more
               \/ inflight' = inflight /\ more'
            /\ late' = late]_vars
    /\ [](alive => timer)
    /\ []<>(~alive \/ beat)
    /\ []<>(~alive \/ ~beat)

\* C11 witness: a tick was handled while the pass started at startup was still out
C11_Witness ==
    /\ last.kind = "tick"
    /\ Len(inflight) = 2
    /\ ~fed
    /\ timer

\* C12: truncate(s, limit) is s when it fits, the first limit bytes when limit <= 3,
\* and otherwise the first limit - 3 bytes and "...", limit bytes in all
C12_TruncateContract ==
    trunc.done =>
        IF Len(trunc.s) <= trunc.max THEN trunc.out = trunc.s
        ELSE IF trunc.max <= 3 THEN trunc.out = SubSeq(trunc.s, 1, trunc.max)
        ELSE /\ Len(trunc.out) = trunc.max
             /\ SubSeq(trunc.out, 1, trunc.max - 3) = SubSeq(trunc.s, 1, trunc.max - 3)
             /\ SubSeq(trunc.out, trunc.max - 2, trunc.max) = <<".", ".", ".">>

\* C12 witness: a string longer than a limit above 3 was cut and marked
C12_Witness ==
    /\ trunc.done
    /\ trunc.max = 4
    /\ Len(trunc.s) = 6
    /\ trunc.out = <<trunc.s[1], ".", ".", ".">>

\* C13: with known dimensions and a non-empty active list the frame shows the row
\* under the cursor, and highlights that row only
C13_CursorRowShown ==
    (m.width # 0 /\ listLen(m) > 0) =>
        /\ ~frame.panic
        /\ m.cursor \in frame.rows
        /\ frame.selected = {m.cursor}

\* C14: the page size of a rendered list is the viewport height minus the chrome
\* rows, floored at 1
C14_PageSizeFloored ==
    (m.width # 0) =>
        /\ frame.pageSize >= 1
        /\ \E chrome \in {FixedChromeRows, FixedChromeRows + 1} :
            frame.pageSize = Max(m.height - chrome, 1)

\* C15: after a move-up or move-down that leaves the cursor inside the window of
\* the previous frame the next frame keeps the offset; otherwise the offset becomes
\* the cursor (above the window) or cursor - pageSize + 1 (below it)
C15_ScrollFollowAcrossFrames ==
    [][(/\ last'.kind = "key"
        /\ last'.key \in {"j", "k"}
        /\ ~frame.placeholder
        /\ frame.pageSize >= 1
        /\ ~frame.panic /\ ~frame'.panic) =>
            /\ (frame.offset <= m'.cursor /\ m'.cursor < frame.offset + frame.pageSize)
                    => frame'.offset = frame.offset
            /\ m'.cursor < frame.offset => frame'.offset = m'.cursor
            /\ m'.cursor >= frame.offset + frame.pageSize
                    => frame'.offset = m'.cursor - frame.pageSize + 1]_vars

\* C16: every port record of a dataMsg has a listening connection record of the same
\* dataMsg with its port number and transport label
C16_PortsFromSameEnumeration ==
    pass.done =>
        \A k \in 1..Len(pass.out.ports) :
            \E c \in 1..Len(pass.out.connections) :
                /\ pass.out.connections[c].state = "LISTEN"
                /\ pass.out.connections[c].local[2] = pass.out.ports[k].port
                /\ pass.out.connections[c].proto = pass.out.ports[k].proto

\* C17: a tab-changing key leaves cursor and offset at 0 and changes neither a record
\* list nor the dimensions
C17_TabKeysReset ==
    [][(last'.kind = "key" /\ last'.key \in {"tab", "shift+tab", "1", "2", "3"}) =>
            /\ m'.cursor = 0
            /\ m'.offset = 0
            /\ m'.connections = m.connections
            /\ m'.ports = m.ports
            /\ m'.interfaces = m.interfaces
            /\ m'.width = m.width
            /\ m'.height = m.height]_vars

\* C17 witness: the Ports tab was selected with two port records to move over
C17_Witness ==
    /\ last.kind = "key"
    /\ last.key = "2"
    /\ m.tab = tabPorts
    /\ Len(m.ports) = 2
    /\ m.cursor = 0

\* C18: rendering leaves the stored state alone: after every message the stored
\* model is the one Update returned, and the stored offset is never the rendered one's
C18_RenderIsPure ==
    [][/\ last'.kind = "key" => m' = handleKey(m, last'.key)
       /\ last'.kind = "resize" => m' = updateWindowSize(m, last'.w, last'.h)
       /\ last'.kind = "tick" => m' = updateTick(m)
       /\ last'.kind = "data" =>
              m' = updateData(m, [connections |-> m'.connections, ports |-> m'.ports,
                                  interfaces |-> m'.interfaces])]_vars

\* C18 witness: a frame was rendered at an offset of 2 and the stored offset is 0
C18_Witness ==
    /\ ~frame.placeholder
    /\ ~frame.panic
    /\ frame.offset = 2
    /\ m.offset = 0

\* C19: a resize stores the delivered width and height, leaves tab, cursor and record
\* lists as they were and starts no pass
C19_ResizeOnlyResizes ==
    [][last'.kind = "resize" =>
            /\ m'.width = last'.w
            /\ m'.height = last'.h
            /\ m'.tab = m.tab
            /\ m'.cursor = m.cursor
            /\ m'.connections = m.connections
            /\ m'.ports = m.ports
            /\ m'.interfaces = m.interfaces
            /\ inflight' = inflight
            /\ more' = more
            /\ late' = late]_vars

\* C19 witness: a resize to height 7 was handled with the cursor down the list and a
\* pass outstanding
C19_Witness ==
    /\ last.kind = "resize"
    /\ last.h = 7
    /\ m.height = 7
    /\ m.width = 80
    /\ m.cursor = 2
    /\ Len(inflight) = 1

\* C20: no dataMsg is applied after the dataMsg of a pass that was started later
C20_NoStaleRefresh ==
    ~(last.kind = "data" /\ last.stale)

=============================================================================
